---- MODULE Spec2Model ----
(***************************************************************************)
(* A model of src/src/regexp/regexp-utils.cc (V8 RegExpUtils): the capture *)
(* getter, the lastIndex accessors, RegExpExec, IsRegExp,                  *)
(* IsUnmodifiedRegExp, AdvanceStringIndex and SetAdvancedStringIndex.      *)
(***************************************************************************)
EXTENDS Integers, Sequences, FiniteSets, TLC

VARIABLES isolate, recv, proto_map, last, log

vars == <<isolate, recv, proto_map, last, log>>

(***************************************************************************)
(* Bounds of the model.                                                    *)
(***************************************************************************)
\* longest subject string drawn for AdvanceStringIndex
MaxSubjectLen == 3
\* largest capture count (register pairs) of a RegExpMatchInfo
MaxCaptures == 2

(***************************************************************************)
(* uint64_t: four 16-bit limbs, most significant first.  Arithmetic is     *)
(* modulo 2^64 (the carry out of the top limb is dropped).                 *)
(***************************************************************************)
LimbBase == 2^16

U64FromNat(n) == <<0, 0, n \div LimbBase, n % LimbBase>>

U64Zero == U64FromNat(0)

U64Add(x, y) ==
  LET s4 == x[4] + y[4]
      s3 == x[3] + y[3] + (s4 \div LimbBase)
      s2 == x[2] + y[2] + (s3 \div LimbBase)
      s1 == x[1] + y[1] + (s2 \div LimbBase)
  IN  <<s1 % LimbBase, s2 % LimbBase, s3 % LimbBase, s4 % LimbBase>>

U64Less(x, y) ==
  \/ x[1] < y[1]
  \/ x[1] = y[1] /\ x[2] < y[2]
  \/ x[1] = y[1] /\ x[2] = y[2] /\ x[3] < y[3]
  \/ x[1] = y[1] /\ x[2] = y[2] /\ x[3] = y[3] /\ x[4] < y[4]

U64LessEq(x, y) == x = y \/ U64Less(x, y)

\* static_cast<uint32_t>(index) of an index below a string length (< 2^31)
U64ToUint32(x) == x[3] * LimbBase + x[4]

\* kMaxSafeInteger = 2^53 - 1
kMaxSafeInteger == <<31, 65535, 65535, 65535>>

\* std::numeric_limits<uint64_t>::max()
kMaxUInt64 == <<65535, 65535, 65535, 65535>>

(***************************************************************************)
(* Strings are sequences of UTF-16 code units; String::Get is 0-based.     *)
(***************************************************************************)
StringGet(string, i) == string[i + 1]

\* Factory::NewSubString(str, begin, end): the code units [begin, end)
NewSubString(str, begin, end) == SubSeq(str, begin + 1, end)

empty_string == <<>>

(***************************************************************************)
(* RegExpUtils::AdvanceStringIndex.  Returns the new index together with   *)
(* whether both DCHECKs held and the positions read with String::Get.      *)
(***************************************************************************)
AdvanceStringIndexWideLow(string, index, unicode) ==
  LET string_length == U64FromNat(Len(string))
      dcheck_le == U64LessEq(index, kMaxSafeInteger)
      plus1 == U64Add(index, U64FromNat(1))
      plus2 == U64Add(index, U64FromNat(2))
  IN  IF unicode /\ U64Less(index, string_length)
      THEN LET first == StringGet(string, U64ToUint32(index))
           IN  IF first >= 55296 /\ first <= 56319 /\ U64Less(plus1, string_length)
               THEN LET second == StringGet(string, U64ToUint32(plus1))
                    IN  IF second >= 56320 /\ second <= 57344
                        THEN [value |-> plus2, dcheck_ok |-> dcheck_le,
                              reads |-> <<index, plus1>>]
                        ELSE [value |-> plus1, dcheck_ok |-> dcheck_le,
                              reads |-> <<index, plus1>>]
               ELSE [value |-> plus1, dcheck_ok |-> dcheck_le, reads |-> <<index>>]
      ELSE [value |-> plus1, dcheck_ok |-> dcheck_le, reads |-> <<>>]

AdvanceStringIndexStuck(string, index, unicode) ==
  [value |-> index, dcheck_ok |-> TRUE, reads |-> <<>>]

AdvanceStringIndex(string, index, unicode) ==
  LET string_length == U64FromNat(Len(string))
      dcheck_le == U64LessEq(index, kMaxSafeInteger)
      plus1 == U64Add(index, U64FromNat(1))
      plus2 == U64Add(index, U64FromNat(2))
  IN  IF unicode /\ U64Less(index, string_length)
      THEN LET first == StringGet(string, U64ToUint32(index))
           IN  IF first >= 55296 /\ first <= 56319 /\ U64Less(plus1, string_length)
               THEN LET dcheck_lt == U64Less(index, kMaxUInt64)
                        second == StringGet(string, U64ToUint32(plus1))
                        reads == <<index, plus1>>
                    IN  IF second >= 56320 /\ second <= 57343
                        THEN [value |-> plus2, dcheck_ok |-> dcheck_le /\ dcheck_lt,
                              reads |-> reads]
                        ELSE [value |-> plus1, dcheck_ok |-> dcheck_le /\ dcheck_lt,
                              reads |-> reads]
               ELSE [value |-> plus1, dcheck_ok |-> dcheck_le, reads |-> <<index>>]
      ELSE [value |-> plus1, dcheck_ok |-> dcheck_le, reads |-> <<>>]

(***************************************************************************)
(* RegExpMatchInfo: the capture registers (a flat sequence, two per        *)
(* capture, 0-based) and the last subject.                                 *)
(***************************************************************************)
NumberOfCaptureRegisters(match_info) == Len(match_info.registers)

Capture(match_info, i) == match_info.registers[i + 1]

LastSubject(match_info) == match_info.last_subject

(***************************************************************************)
(* RegExpUtils::GenericCaptureGetter.  Returns the string and *ok.         *)
(***************************************************************************)
GenericCaptureGetterOkStale(match_info, capture) ==
  LET index == capture * 2
  IN  IF index >= NumberOfCaptureRegisters(match_info)
      THEN [string |-> empty_string, ok |-> FALSE]
      ELSE LET match_start == Capture(match_info, index)
               match_end == Capture(match_info, index + 1)
           IN  IF match_start = -1 \/ match_end = -1
               THEN [string |-> empty_string, ok |-> TRUE]
               ELSE [string |-> NewSubString(LastSubject(match_info),
                                             match_start, match_end),
                     ok |-> TRUE]

GenericCaptureGetter(match_info, capture) ==
  LET index == capture * 2
  IN  IF index >= NumberOfCaptureRegisters(match_info)
      THEN [string |-> empty_string, ok |-> FALSE]
      ELSE LET match_start == Capture(match_info, index)
               match_end == Capture(match_info, index + 1)
           IN  IF match_start = -1 \/ match_end = -1
               THEN [string |-> empty_string, ok |-> FALSE]
               ELSE [string |-> NewSubString(LastSubject(match_info),
                                             match_start, match_end),
                     ok |-> TRUE]

(***************************************************************************)
(* Values of the runtime.  A number is a Smi or a heap number; a heap      *)
(* number is sign, integer magnitude and an optional fraction of one half, *)
(* or NaN, or an infinity.  Objects and functions carry an identity.       *)
(***************************************************************************)
Val(t, neg, mag, frac, id) ==
  [t |-> t, neg |-> neg, mag |-> mag, frac |-> frac, id |-> id]

Undefined == Val("undefined", FALSE, U64Zero, FALSE, 0)
Null == Val("null", FALSE, U64Zero, FALSE, 0)
True == Val("boolean", FALSE, U64Zero, FALSE, 1)
False == Val("boolean", FALSE, U64Zero, FALSE, 0)
Symbol == Val("symbol", FALSE, U64Zero, FALSE, 0)
NaN == Val("nan", FALSE, U64Zero, FALSE, 0)
Infinity == Val("infinity", FALSE, U64Zero, FALSE, 0)
MinusInfinity == Val("infinity", TRUE, U64Zero, FALSE, 0)
\* a string value; id 0 is the empty string, id 1 is "abc"
Str(id) == Val("string", FALSE, U64Zero, FALSE, id)
\* an ordinary object (JSReceiver, not callable)
Obj(id) == Val("object", FALSE, U64Zero, FALSE, id)
\* a callable object
Fn(id) == Val("function", FALSE, U64Zero, FALSE, id)
Smi(n) == Val("smi", n < 0, U64FromNat(IF n < 0 THEN -n ELSE n), FALSE, 0)
HeapNumber(neg, mag, frac) == Val("heapnumber", neg, mag, frac, 0)

IsSmi(v) == v.t = "smi"
IsUndefined(v) == v.t = "undefined"
IsNull(v) == v.t = "null"
IsCallable(v) == v.t = "function"
\* objects and functions are JSReceivers, primitives are not
IsJSReceiver(v) == v.t \in {"object", "function"}

\* the receiver the operations are applied to, as a value
Matcher == Obj(0)

\* kSmiMaxValue (32-bit Smis): 2^31 - 1
kSmiMaxValue == <<0, 0, 32767, 65535>>

\* Factory::NewNumberFromInt64 of a uint64_t converted to int64_t:
\* a Smi when the value fits one, else a heap number; values from 2^63 on
\* convert to negative int64_t (two's complement)
NewNumberFromInt64(value) ==
  IF value[1] >= 2^15
  THEN HeapNumber(TRUE,
                  U64Add(<<65535 - value[1], 65535 - value[2],
                           65535 - value[3], 65535 - value[4]>>, U64FromNat(1)),
                  FALSE)
  ELSE IF U64LessEq(value, kSmiMaxValue)
       THEN Val("smi", FALSE, value, FALSE, 0)
       ELSE HeapNumber(FALSE, value, FALSE)

\* Smi::ToInt(v) >= 0
SmiNonNegative(v) == ~v.neg

\* Object::BooleanValue
BooleanValue(v) ==
  CASE v.t \in {"undefined", "null", "nan"} -> FALSE
    [] v.t = "boolean" -> v.id = 1
    [] v.t = "string" -> v.id # 0
    [] v.t \in {"smi", "heapnumber"} -> v.mag # U64Zero \/ v.frac
    [] OTHER -> TRUE

\* PositiveNumberToUint64 of a number
PositiveNumberToUint64(number) ==
  CASE number.t = "nan" -> U64Zero
    [] number.t = "infinity" -> IF number.neg THEN U64Zero ELSE kMaxUInt64
    [] OTHER -> IF number.neg THEN U64Zero ELSE number.mag

(***************************************************************************)
(* User code.  A callback (getter, setter, valueOf, a callable exec) is a  *)
(* behaviour: what it does to the matcher, and whether it throws or which  *)
(* value it returns.                                                       *)
(***************************************************************************)
Effects ==
  {"none", "set_prototype", "modify_regexp_prototype", "store_lastIndex",
   "define_exec"}

Behaviour(effect, throws, ret) ==
  [effect |-> effect, throws |-> throws, ret |-> ret]

\* the behaviours of a callback whose return value is drawn from rets;
\* a callback with an effect returns first
UserCode(rets, first) ==
  {Behaviour("none", FALSE, r) : r \in rets}
    \cup {Behaviour(e, FALSE, first) : e \in Effects \ {"none"}}
    \cup {Behaviour("none", TRUE, Undefined)}

\* stands for the callback at a place no user code is reached
NoUserCode == Behaviour("none", FALSE, Undefined)

(***************************************************************************)
(* The heap: the matcher and the map of the RegExp.prototype object.       *)
(*   map         the receiver's map: the initial JSRegExp map, another map *)
(*               of a JSRegExp (subclass instance, own property added,     *)
(*               prototype replaced), or the map of some other receiver    *)
(*   last_index  the value of the "lastIndex" data property; for a         *)
(*               JSRegExp it lives in the in-object field                  *)
(*   lastIndex   how "lastIndex" resolves: "data" (writable), "readonly",  *)
(*               "accessor", or "absent" (no such property, on an object   *)
(*               that is not extensible)                                   *)
(*   exec, match how "exec" and @@match resolve: [kind, value]             *)
(***************************************************************************)
Maps == {"initial_map", "other_regexp_map", "object_map"}

IsJSRegExpMap(map) == map \in {"initial_map", "other_regexp_map"}

Heap(r, p) == [recv |-> r, proto_map |-> p]

DataProp(v) == [kind |-> "data", value |-> v]
AccessorProp == [kind |-> "accessor", value |-> Undefined]

\* the map a receiver gets when its shape changes
TransitionedMap(map) == IF IsJSRegExpMap(map) THEN "other_regexp_map" ELSE map

ApplyEffect(h, effect) ==
  CASE effect = "set_prototype" ->
         [h EXCEPT !.recv.map = TransitionedMap(@)]
    [] effect = "modify_regexp_prototype" ->
         [h EXCEPT !.proto_map = "modified_prototype_map"]
    [] effect = "store_lastIndex" ->
         IF h.recv.lastIndex = "data"
         THEN [h EXCEPT !.recv.last_index = HeapNumber(FALSE, U64FromNat(1), TRUE)]
         ELSE h
    [] effect = "define_exec" ->
         [h EXCEPT !.recv.map = TransitionedMap(@),
                   !.recv.exec = DataProp(Fn(2))]
    [] OTHER -> h

(***************************************************************************)
(* Events of an operation, in order.                                       *)
(***************************************************************************)
Event(ev, key, val) == [ev |-> ev, key |-> key, val |-> val, args |-> <<>>]

CallEvent(site, callee, receiver, args) ==
  [ev |-> "Call", key |-> site, val |-> callee, args |-> <<receiver>> \o args]

\* the outcome of a step: heap, events so far, and a value or an exception
Outcome(h, events, error, value) ==
  [heap |-> h, log |-> events, error |-> error, value |-> value]

NoError == "none"

(***************************************************************************)
(* The collaborators: the property model, callable invocation, ToLength.   *)
(***************************************************************************)
PropOf(h, key) ==
  CASE key = "lastIndex" ->
         [kind |-> IF h.recv.lastIndex = "accessor" THEN "accessor" ELSE "data",
          value |-> h.recv.last_index]
    [] key = "exec" -> h.recv.exec
    [] OTHER -> h.recv.match

\* Object::GetProperty(recv, key); code is the getter's behaviour
GetProperty(h, events, key, code) ==
  LET p == PropOf(h, key)
      e1 == Append(events, Event("GetProperty", key, Undefined))
  IN  IF p.kind = "data"
      THEN Outcome(h, e1, NoError, p.value)
      ELSE LET e2 == Append(e1, Event("getter", key, Undefined))
               h2 == ApplyEffect(h, code.effect)
           IN  IF code.throws
               THEN Outcome(h2, e2, "Exception", Undefined)
               ELSE Outcome(h2, e2, NoError, code.ret)

\* Object::SetProperty(recv, "lastIndex", value, language_mode); code is the
\* setter's behaviour.  A write that is rejected (a read-only property, no
\* property on an object that is not extensible) throws in strict mode and
\* is dropped in sloppy mode.
SetProperty(h, events, key, value, language_mode, code) ==
  LET e1 == Append(events, Event("SetProperty", key, value))
  IN  CASE h.recv.lastIndex = "data" ->
             Outcome([h EXCEPT !.recv.last_index = value], e1, NoError, value)
        [] h.recv.lastIndex = "readonly" ->
             IF language_mode = "kStrict"
             THEN Outcome(h, e1, "TypeError:kStrictReadOnlyProperty", Undefined)
             ELSE Outcome(h, e1, NoError, value)
        [] h.recv.lastIndex = "absent" ->
             IF language_mode = "kStrict"
             THEN Outcome(h, e1, "TypeError:kObjectNotExtensible", Undefined)
             ELSE Outcome(h, e1, NoError, value)
        [] OTHER ->
             LET e2 == Append(e1, Event("setter", key, value))
                 h2 == ApplyEffect(h, code.effect)
             IN  IF code.throws
                 THEN Outcome(h2, e2, "Exception", Undefined)
                 ELSE Outcome(h2, e2, NoError, value)

\* Execution::Call(isolate, callee, receiver, argc, argv) at a call site;
\* code is the callee's behaviour
ExecutionCall(h, events, site, callee, receiver, args, code) ==
  LET e1 == Append(events, CallEvent(site, callee, receiver, args))
      h2 == ApplyEffect(h, code.effect)
  IN  IF code.throws
      THEN Outcome(h2, e1, "Exception", Undefined)
      ELSE Outcome(h2, e1, NoError, code.ret)

\* ToLength of a primitive that is not a symbol: ToInteger, clamped to
\* 0 .. 2^53 - 1
ToLengthOfPrimitive(v) ==
  CASE v.t \in {"smi", "heapnumber"} ->
         IF v.neg THEN U64Zero
         ELSE IF U64Less(kMaxSafeInteger, v.mag) THEN kMaxSafeInteger ELSE v.mag
    [] v.t = "infinity" -> IF v.neg THEN U64Zero ELSE kMaxSafeInteger
    [] v.t = "boolean" -> U64FromNat(v.id)
    [] OTHER -> U64Zero

\* Object::ToLength(isolate, value); code is the behaviour of the value's
\* valueOf when the value is an object
ToLength(h, events, value, code) ==
  LET e1 == Append(events, Event("ToLength", "", value))
  IN  IF IsJSReceiver(value)
      THEN LET e2 == Append(e1, Event("valueOf", "", value))
               h2 == ApplyEffect(h, code.effect)
           IN  IF code.throws
               THEN Outcome(h2, e2, "Exception", Undefined)
               ELSE IF code.ret.t = "symbol" \/ IsJSReceiver(code.ret)
                    THEN Outcome(h2, e2, "TypeError:kCannotConvertToPrimitive",
                                 Undefined)
                    ELSE Outcome(h2, e2, NoError,
                                 NewNumberFromInt64(ToLengthOfPrimitive(code.ret)))
      ELSE IF value.t = "symbol"
           THEN Outcome(h, e1, "TypeError:kSymbolToNumber", Undefined)
           ELSE Outcome(h, e1, NoError,
                        NewNumberFromInt64(ToLengthOfPrimitive(value)))

(***************************************************************************)
(* HasInitialRegExpMap, RegExpUtils::SetLastIndex and                      *)
(* RegExpUtils::GetLastIndex.                                              *)
(***************************************************************************)
HasInitialRegExpMapByType(iso, h) == IsJSRegExpMap(h.recv.map)

HasInitialRegExpMapNever(iso, h) == FALSE

HasInitialRegExpMap(iso, h) == h.recv.map = iso.initial_map

\* JSRegExp::set_last_index(value, SKIP_WRITE_BARRIER)
set_last_index(h, events, value) ==
  Outcome([h EXCEPT !.recv.last_index = value],
          Append(events, Event("set_last_index", "kLastIndexFieldIndex", value)),
          NoError, Matcher)

\* JSRegExp::last_index()
last_index(h, events) ==
  Outcome(h, Append(events, Event("last_index", "kLastIndexFieldIndex",
                                  h.recv.last_index)),
          NoError, h.recv.last_index)

SetLastIndexTruncates(iso, h, events, value, code) ==
  LET value_as_object ==
        Val("smi", FALSE, <<0, 0, value[3] % 2^15, value[4]>>, FALSE, 0)
  IN  IF HasInitialRegExpMap(iso, h)
      THEN set_last_index(h, events, value_as_object)
      ELSE SetProperty(h, events, "lastIndex", value_as_object, "kStrict", code)

SetLastIndexSloppy(iso, h, events, value, code) ==
  LET value_as_object == NewNumberFromInt64(value)
  IN  IF HasInitialRegExpMap(iso, h)
      THEN set_last_index(h, events, value_as_object)
      ELSE SetProperty(h, events, "lastIndex", value_as_object, "kSloppy", code)

SetLastIndex(iso, h, events, value, code) ==
  LET value_as_object == NewNumberFromInt64(value)
  IN  IF HasInitialRegExpMap(iso, h)
      THEN set_last_index(h, events, value_as_object)
      ELSE SetProperty(h, events, "lastIndex", value_as_object, "kStrict", code)

GetLastIndex(iso, h, events, code) ==
  IF HasInitialRegExpMap(iso, h)
  THEN last_index(h, events)
  ELSE GetProperty(h, events, "lastIndex", code)

(***************************************************************************)
(* RegExpUtils::RegExpExec.  exec is Undefined when the caller has not     *)
(* fetched it; getter and callee are the behaviours of the "exec" getter   *)
(* and of the function that is called.                                     *)
(***************************************************************************)
IsJSRegExp(h) == IsJSRegExpMap(h.recv.map)

RegExpExecCallableRejectsNull(iso, h, events, string, exec, callee) ==
  LET r == ExecutionCall(h, events, "exec", exec, Matcher, <<string>>, callee)
  IN  IF r.error # NoError
      THEN r
      ELSE IF ~IsJSReceiver(r.value)
           THEN Outcome(r.heap, r.log, "TypeError:kInvalidRegExpExecResult",
                        Undefined)
           ELSE r

\* lines 81-97: the callable branch
RegExpExecCallable(iso, h, events, string, exec, callee) ==
  LET r == ExecutionCall(h, events, "exec", exec, Matcher, <<string>>, callee)
  IN  IF r.error # NoError
      THEN r
      ELSE IF ~IsJSReceiver(r.value) /\ ~IsNull(r.value)
           THEN Outcome(r.heap, r.log, "TypeError:kInvalidRegExpExecResult",
                        Undefined)
           ELSE r

RegExpExecFallbackUnchecked(iso, h, events, string, callee) ==
  ExecutionCall(h, events, "regexp_exec_function", iso.regexp_exec_function,
                Matcher, <<string>>, callee)

\* lines 99-116: the fallback to the builtin exec
RegExpExecFallback(iso, h, events, string, callee) ==
  IF ~IsJSRegExp(h)
  THEN Outcome(h, events, "TypeError:kIncompatibleMethodReceiver", Undefined)
  ELSE ExecutionCall(h, events, "regexp_exec_function",
                     iso.regexp_exec_function, Matcher, <<string>>, callee)

\* lines 81-116, with exec fetched
RegExpExecDispatch(iso, h, events, string, exec, callee) ==
  LET e1 == Append(events, Event("IsCallable", "exec", exec))
  IN  IF IsCallable(exec)
      THEN RegExpExecCallable(iso, h, e1, string, exec, callee)
      ELSE RegExpExecFallback(iso, h, e1, string, callee)

RegExpExecRefetch(iso, h, events, string, exec, getter, callee) ==
  IF IsUndefined(exec)
  THEN LET r == GetProperty(h, events, "exec", getter)
           now == PropOf(r.heap, "exec")
       IN  IF r.error # NoError
           THEN r
           ELSE RegExpExecDispatch(iso, r.heap, r.log, string,
                                   IF now.kind = "data" THEN now.value ELSE r.value,
                                   callee)
  ELSE RegExpExecDispatch(iso, h, events, string, exec, callee)

RegExpExec(iso, h, events, string, exec, getter, callee) ==
  IF IsUndefined(exec)
  THEN LET r == GetProperty(h, events, "exec", getter)
       IN  IF r.error # NoError
           THEN r
           ELSE RegExpExecDispatch(iso, r.heap, r.log, string, r.value, callee)
  ELSE RegExpExecDispatch(iso, h, events, string, exec, callee)

(***************************************************************************)
(* RegExpUtils::IsRegExp.  object is the matcher or a primitive.           *)
(***************************************************************************)
Bool(b) == IF b THEN True ELSE False

IsRegExpGenuineFirst(h, events, object, getter) ==
  IF ~IsJSReceiver(object)
  THEN Outcome(h, events, NoError, False)
  ELSE IF IsJSRegExp(h)
       THEN Outcome(h, events, NoError, True)
       ELSE LET r == GetProperty(h, events, "@@match", getter)
            IN  IF r.error # NoError
                THEN r
                ELSE Outcome(r.heap, r.log, NoError, Bool(BooleanValue(r.value)))

IsRegExp(h, events, object, getter) ==
  IF ~IsJSReceiver(object)
  THEN Outcome(h, events, NoError, False)
  ELSE LET r == GetProperty(h, events, "@@match", getter)
       IN  IF r.error # NoError
           THEN r
           ELSE IF ~IsUndefined(r.value)
                THEN Outcome(r.heap, r.log, NoError, Bool(BooleanValue(r.value)))
                ELSE Outcome(r.heap, r.log, NoError, Bool(IsJSRegExp(r.heap)))

(***************************************************************************)
(* RegExpUtils::IsUnmodifiedRegExp.                                        *)
(***************************************************************************)
\* recv->map()->prototype(): the initial map's prototype is the
\* RegExp.prototype object, whose map is h.proto_map
MapPrototype(h) ==
  IF h.recv.map = "initial_map"
  THEN [is_receiver |-> TRUE, map |-> h.proto_map]
  ELSE [is_receiver |-> TRUE, map |-> "other_prototype_map"]

IsUnmodifiedRegExpAnySmi(iso, h, obj) ==
  /\ ~iso.force_slow_path
  /\ IsJSReceiver(obj)
  /\ h.recv.map = iso.initial_map
  /\ MapPrototype(h).is_receiver
  /\ MapPrototype(h).map = iso.regexp_prototype_map
  /\ IsSmi(h.recv.last_index)

IsUnmodifiedRegExpIgnoresFlag(iso, h, obj) ==
  /\ IsJSReceiver(obj)
  /\ h.recv.map = iso.initial_map
  /\ MapPrototype(h).is_receiver
  /\ MapPrototype(h).map = iso.regexp_prototype_map
  /\ IsSmi(h.recv.last_index)
  /\ SmiNonNegative(h.recv.last_index)

IsUnmodifiedRegExp(iso, h, obj) ==
  IF iso.force_slow_path
  THEN FALSE
  ELSE IF ~IsJSReceiver(obj)
  THEN FALSE
  ELSE IF h.recv.map # iso.initial_map
  THEN FALSE
  ELSE LET proto == MapPrototype(h)
       IN  IF ~proto.is_receiver
           THEN FALSE
           ELSE IF proto.map # iso.regexp_prototype_map
           THEN FALSE
           ELSE IsSmi(h.recv.last_index) /\ SmiNonNegative(h.recv.last_index)

(***************************************************************************)
(* RegExpUtils::SetAdvancedStringIndex.  getter, coercion and setter are   *)
(* the behaviours of the "lastIndex" getter, of valueOf under ToLength and *)
(* of the "lastIndex" setter.                                              *)
(***************************************************************************)
NoAdvance == [value |-> U64Zero, dcheck_ok |-> TRUE, reads |-> <<>>]

\* an outcome together with the AdvanceStringIndex call that was made
WithAdvance(o, index, adv) ==
  [heap |-> o.heap, log |-> o.log, error |-> o.error, value |-> o.value,
   index |-> index, adv |-> adv]

ReadAndAdvanceFromSlot(iso, h, events, string, unicode, getter, coercion) ==
  LET r1 == GetLastIndex(iso, h, events, getter)
  IN  IF r1.error # NoError
      THEN WithAdvance(r1, U64Zero, NoAdvance)
      ELSE LET r2 == ToLength(r1.heap, r1.log, r1.value, coercion)
           IN  IF r2.error # NoError
               THEN WithAdvance(r2, U64Zero, NoAdvance)
               ELSE LET last_index_u64 == PositiveNumberToUint64(r2.value)
                        adv == AdvanceStringIndex(string, last_index_u64, unicode)
                        e3 == Append(r2.log,
                                     Event("AdvanceStringIndex", "", r2.value))
                    IN  WithAdvance(Outcome(r2.heap, e3, NoError, r2.value),
                                    last_index_u64, adv)

ReadAndAdvanceUnclamped(iso, h, events, string, unicode, getter, coercion) ==
  LET r1 == GetProperty(h, events, "lastIndex", getter)
  IN  IF r1.error # NoError
      THEN WithAdvance(r1, U64Zero, NoAdvance)
      ELSE LET last_index_u64 == PositiveNumberToUint64(r1.value)
               adv == AdvanceStringIndex(string, last_index_u64, unicode)
               e3 == Append(r1.log, Event("AdvanceStringIndex", "", r1.value))
           IN  WithAdvance(Outcome(r1.heap, e3, NoError, r1.value),
                           last_index_u64, adv)

ReadAndAdvanceSwallow(iso, h, events, string, unicode, getter, coercion) ==
  LET r1 == GetProperty(h, events, "lastIndex", getter)
  IN  IF r1.error # NoError
      THEN WithAdvance(r1, U64Zero, NoAdvance)
      ELSE LET r2 == ToLength(r1.heap, r1.log, r1.value, coercion)
               length == IF r2.error # NoError THEN Smi(0) ELSE r2.value
               last_index_u64 == PositiveNumberToUint64(length)
               adv == AdvanceStringIndex(string, last_index_u64, unicode)
               e3 == Append(r2.log, Event("AdvanceStringIndex", "", length))
           IN  WithAdvance(Outcome(r2.heap, e3, NoError, length),
                           last_index_u64, adv)

\* lines 187-197: read "lastIndex", ToLength, AdvanceStringIndex
ReadAndAdvance(iso, h, events, string, unicode, getter, coercion) ==
  LET r1 == GetProperty(h, events, "lastIndex", getter)
  IN  IF r1.error # NoError
      THEN WithAdvance(r1, U64Zero, NoAdvance)
      ELSE LET r2 == ToLength(r1.heap, r1.log, r1.value, coercion)
           IN  IF r2.error # NoError
               THEN WithAdvance(r2, U64Zero, NoAdvance)
               ELSE LET last_index_u64 == PositiveNumberToUint64(r2.value)
                        adv == AdvanceStringIndex(string, last_index_u64, unicode)
                        e3 == Append(r2.log,
                                     Event("AdvanceStringIndex", "", r2.value))
                    IN  WithAdvance(Outcome(r2.heap, e3, NoError, r2.value),
                                    last_index_u64, adv)

SetAdvancedStringIndexStaleGate(iso, h, events, string, unicode, getter, coercion, setter) ==
  LET r == ReadAndAdvance(iso, h, events, string, unicode, getter, coercion)
  IN  IF r.error # NoError
      THEN r
      ELSE IF HasInitialRegExpMap(iso, h)
           THEN WithAdvance(set_last_index(r.heap, r.log,
                                           NewNumberFromInt64(r.adv.value)),
                            r.index, r.adv)
           ELSE WithAdvance(SetProperty(r.heap, r.log, "lastIndex",
                                        NewNumberFromInt64(r.adv.value), "kStrict",
                                        setter),
                            r.index, r.adv)

SetAdvancedStringIndex(iso, h, events, string, unicode, getter, coercion, setter) ==
  LET r == ReadAndAdvance(iso, h, events, string, unicode, getter, coercion)
  IN  IF r.error # NoError
      THEN r
      ELSE WithAdvance(SetLastIndex(iso, r.heap, r.log, r.adv.value, setter),
                       r.index, r.adv)

(***************************************************************************)
(* The inputs of the operations.                                           *)
(***************************************************************************)
\* bound on the observations (GetLastIndex, IsUnmodifiedRegExp) that follow
\* the first operation of a behaviour
MaxFollowUps == 1

\* 2^53
TwoTo53 == <<32, 0, 0, 0>>

\* a ten-unit subject without surrogates, and one that starts with a pair
Subjects == {[i \in 1..10 |-> 97], <<55357, 56832, 97>>}

\* values of the "lastIndex" data property
CursorValues ==
  {Smi(0), Smi(4), Smi(-1), HeapNumber(FALSE, kMaxSafeInteger, FALSE),
   HeapNumber(FALSE, TwoTo53, FALSE), Obj(1)}

\* values a "lastIndex" getter returns
GetterRets ==
  {Smi(4), HeapNumber(TRUE, U64FromNat(1), TRUE), Infinity, Str(1), Symbol, Obj(1)}

\* values valueOf returns under ToLength
CoercionRets == {Smi(0), Smi(1), HeapNumber(FALSE, TwoTo53, FALSE), Symbol}

\* values passed to SetLastIndex: 0 .. 2^53, what its callers pass
SetValues ==
  {U64Zero, U64FromNat(5), U64Add(kSmiMaxValue, U64FromNat(1)), TwoTo53}

\* the exec argument of RegExpExec, and what an "exec" getter returns
ExecArgs == {Undefined, Fn(1), Smi(42)}
ExecRets == {Fn(1), Smi(42)}

\* what a callable exec returns
CallRets == {Null, Obj(2), Smi(3), Undefined}

\* what the builtin exec does: no match, a match, or an exception
BuiltinCode ==
  {Behaviour("none", FALSE, Null), Behaviour("none", FALSE, Obj(2)),
   Behaviour("none", TRUE, Undefined)}

\* what an @@match getter returns
MatchRets == {Undefined, True, Smi(0)}

\* the argument of IsRegExp and IsUnmodifiedRegExp
Objects == {Matcher, Undefined, Str(1)}

\* the behaviours of the getter (or setter) of key, if it has one
AccessorCode(h, key, rets, first) ==
  IF PropOf(h, key).kind = "accessor" THEN UserCode(rets, first) ELSE {NoUserCode}

\* the behaviours of valueOf under ToLength(value)
CoercionCode(value) ==
  IF IsJSReceiver(value) THEN UserCode(CoercionRets, Smi(0)) ELSE {NoUserCode}

\* the behaviours of the function RegExpExec calls, given what was fetched
CalleeCode(iso, fetched) ==
  IF fetched.error # NoError
  THEN {NoUserCode}
  ELSE IF IsCallable(fetched.value) /\ fetched.value # iso.regexp_exec_function
       THEN UserCode(CallRets, Null)
       ELSE BuiltinCode

(***************************************************************************)
(* Initial states: a matcher of any shape, before any operation.           *)
(***************************************************************************)
Isolates ==
  {[initial_map |-> "initial_map",
    regexp_prototype_map |-> "regexp_prototype_map",
    regexp_exec_function |-> Fn(0),
    force_slow_path |-> f] : f \in BOOLEAN}

\* RegExp.prototype.exec and RegExp.prototype[@@match], as inherited
DefaultExec == DataProp(Fn(0))
DefaultMatch == DataProp(Fn(3))

ExecMatchPairs ==
  {<<e, DefaultMatch>> : e \in {DefaultExec, DataProp(Fn(1)), DataProp(Smi(42)),
                                AccessorProp}}
    \cup {<<DefaultExec, m>> : m \in {DataProp(Undefined), DataProp(False),
                                      AccessorProp}}

Receiver(map, kind, cursor, pair) ==
  [map |-> map, lastIndex |-> kind, last_index |-> cursor,
   exec |-> pair[1], match |-> pair[2]]

\* a JSRegExp with the initial map: "lastIndex" is the writable in-object
\* field; with RegExp.prototype untouched it inherits exec and @@match
InitialMapHeaps ==
  {Heap(Receiver("initial_map", "data", c, <<DefaultExec, DefaultMatch>>),
        "regexp_prototype_map") : c \in CursorValues}
    \cup {Heap(Receiver("initial_map", "data", c, p), "modified_prototype_map") :
            c \in CursorValues, p \in ExecMatchPairs}

\* a JSRegExp with another map ("lastIndex" stays an own data property),
\* or another receiver
OtherHeaps ==
  {Heap(Receiver(s[1], s[2], c, p), "regexp_prototype_map") :
     s \in {<<"other_regexp_map", "data">>, <<"other_regexp_map", "readonly">>,
            <<"object_map", "data">>, <<"object_map", "readonly">>,
            <<"object_map", "accessor">>},
     c \in CursorValues, p \in ExecMatchPairs}
    \cup {Heap(Receiver("object_map", "absent", Undefined, p),
               "regexp_prototype_map") : p \in ExecMatchPairs}

NoArgs == [none |-> TRUE]

NoRet ==
  [error |-> NoError, value |-> Undefined, index |-> U64Zero, adv |-> NoAdvance]

NoHeap == Heap(Receiver("initial_map", "data", Smi(0), <<DefaultExec, DefaultMatch>>),
               "regexp_prototype_map")

NoPrev == [op |-> "none", pre |-> NoHeap, args |-> NoArgs, value |-> Undefined,
           log |-> <<>>]

Init ==
  /\ isolate \in Isolates
  /\ \E h \in InitialMapHeaps \cup OtherHeaps :
       recv = h.recv /\ proto_map = h.proto_map
  /\ log = <<>>
  /\ last = [op |-> "none", n |-> 0, args |-> NoArgs, ret |-> NoRet,
             pre |-> NoHeap, at_write |-> NoHeap, prev |-> NoPrev]

(***************************************************************************)
(* One action per operation.                                               *)
(***************************************************************************)
CurrentHeap == Heap(recv, proto_map)

\* the operations whose arguments, result and events are kept for the
\* operation that follows them
Remembered == {"SetLastIndex", "IsUnmodifiedRegExp"}

\* the operation op(args) ran to outcome r; w is the heap its write saw
Commit(op, args, r, w) ==
  /\ recv' = r.heap.recv
  /\ proto_map' = r.heap.proto_map
  /\ log' = r.log
  /\ last' = [op |-> op, n |-> last.n + 1, args |-> args,
              ret |-> [error |-> r.error, value |-> r.value,
                       index |-> r.index, adv |-> r.adv],
              pre |-> CurrentHeap, at_write |-> w,
              prev |-> IF last.op \in Remembered
                       THEN [op |-> last.op, pre |-> last.pre, args |-> last.args,
                             value |-> last.ret.value, log |-> log]
                       ELSE [NoPrev EXCEPT !.op = last.op, !.pre = last.pre]]
  /\ UNCHANGED isolate

Plain(o) == WithAdvance(o, U64Zero, NoAdvance)

\* an operation starts a behaviour; an observation may also follow a cursor
\* write, a RegExpExec or an observation
First == last.n = 0

FollowUp ==
  \/ First
  \/ /\ last.n <= MaxFollowUps
     /\ last.op \in {"SetLastIndex", "SetAdvancedStringIndex", "RegExpExec",
                     "GetLastIndex", "IsUnmodifiedRegExp"}

GetLastIndexOp ==
  /\ FollowUp
  /\ \E code \in AccessorCode(CurrentHeap, "lastIndex", GetterRets, Smi(4)) :
       Commit("GetLastIndex", [getter |-> code],
              Plain(GetLastIndex(isolate, CurrentHeap, <<>>, code)),
              CurrentHeap)

SetLastIndexOp ==
  /\ First
  /\ \E value \in SetValues,
        code \in AccessorCode(CurrentHeap, "lastIndex", {Undefined}, Undefined) :
       Commit("SetLastIndex", [value |-> value, setter |-> code],
              Plain(SetLastIndex(isolate, CurrentHeap, <<>>, value, code)),
              CurrentHeap)

RegExpExecOp ==
  /\ First
  /\ \E string \in Subjects, exec \in ExecArgs,
        getter \in AccessorCode(CurrentHeap, "exec", ExecRets, Fn(1)) :
       LET fetched == IF IsUndefined(exec)
                      THEN GetProperty(CurrentHeap, <<>>, "exec", getter)
                      ELSE Outcome(CurrentHeap, <<>>, NoError, exec)
       IN  \E callee \in CalleeCode(isolate, fetched) :
             Commit("RegExpExec",
                    [string |-> string, exec |-> exec, getter |-> getter,
                     callee |-> callee],
                    Plain(RegExpExec(isolate, CurrentHeap, <<>>, string, exec,
                                     getter, callee)),
                    CurrentHeap)

IsRegExpOp ==
  /\ First
  /\ \E object \in Objects,
        getter \in AccessorCode(CurrentHeap, "@@match", MatchRets, True) :
       Commit("IsRegExp", [object |-> object, getter |-> getter],
              Plain(IsRegExp(CurrentHeap, <<>>, object, getter)),
              CurrentHeap)

IsUnmodifiedRegExpOp ==
  /\ FollowUp
  /\ \E obj \in Objects :
       Commit("IsUnmodifiedRegExp", [object |-> obj],
              Plain(Outcome(CurrentHeap, <<>>, NoError,
                            Bool(IsUnmodifiedRegExp(isolate, CurrentHeap, obj)))),
              CurrentHeap)

SetAdvancedStringIndexOp ==
  /\ First
  /\ \E string \in Subjects, unicode \in BOOLEAN,
        getter \in AccessorCode(CurrentHeap, "lastIndex", GetterRets, Smi(4)),
        setter \in AccessorCode(CurrentHeap, "lastIndex", {Undefined}, Undefined) :
       LET read == GetProperty(CurrentHeap, <<>>, "lastIndex", getter)
       IN  \E coercion \in CoercionCode(read.value) :
             Commit("SetAdvancedStringIndex",
                    [string |-> string, unicode |-> unicode, getter |-> getter,
                     coercion |-> coercion, setter |-> setter],
                    SetAdvancedStringIndex(isolate, CurrentHeap, <<>>, string,
                                           unicode, getter, coercion, setter),
                    ReadAndAdvance(isolate, CurrentHeap, <<>>, string, unicode,
                                   getter, coercion).heap)

Next ==
  \/ GetLastIndexOp
  \/ SetLastIndexOp
  \/ RegExpExecOp
  \/ IsRegExpOp
  \/ IsUnmodifiedRegExpOp
  \/ SetAdvancedStringIndexOp

Spec == Init /\ [][Next]_vars

(***************************************************************************)
(* AdvanceStringIndex on its own: the inputs are drawn in the initial      *)
(* state, and the one action applies the function.                         *)
(***************************************************************************)
\* code units at and around the surrogate ranges
CodeUnits == {97, 55295, 55296, 56319, 56320, 57343, 57344}

StringsUpTo(n) == UNION {[1..k -> CodeUnits] : k \in 0..n}

\* indices around the subject, around 2^16 and 2^32, and up to 2^53 - 1
Indices ==
  {U64FromNat(i) : i \in 0..(MaxSubjectLen + 1)}
    \cup {<<0, 0, 1, 0>>, <<0, 1, 0, 0>>, <<0, 1, 0, 1>>,
          <<31, 65535, 65535, 65534>>, kMaxSafeInteger}

QuietHeap ==
  /\ isolate \in {i \in Isolates : ~i.force_slow_path}
  /\ recv = NoHeap.recv
  /\ proto_map = NoHeap.proto_map
  /\ log = <<>>

Pending(op, args) ==
  [op |-> op, n |-> 0, args |-> args, ret |-> NoRet, pre |-> NoHeap,
   at_write |-> NoHeap, prev |-> NoPrev]

InitAdvance ==
  /\ QuietHeap
  /\ \E string \in StringsUpTo(MaxSubjectLen), index \in Indices,
        unicode \in BOOLEAN :
       last = Pending("AdvanceStringIndex",
                      [string |-> string, index |-> index, unicode |-> unicode])

AdvanceStringIndexOp ==
  /\ last.op = "AdvanceStringIndex"
  /\ last.n = 0
  /\ last' = [last EXCEPT !.n = 1,
                          !.ret.adv = AdvanceStringIndex(last.args.string,
                                                         last.args.index,
                                                         last.args.unicode)]
  /\ UNCHANGED <<isolate, recv, proto_map, log>>

SpecAdvance == InitAdvance /\ [][AdvanceStringIndexOp]_vars

(***************************************************************************)
(* GenericCaptureGetter on its own.                                        *)
(***************************************************************************)
\* the subject "abcdefgh"
LastSubjects == {[i \in 1..8 |-> 96 + i]}

\* register pairs: unset, inside the subject, empty at either end, the whole
\* subject, and half-set pairs
RegisterPairs ==
  {<<-1, -1>>, <<2, 5>>, <<0, 0>>, <<0, 8>>, <<8, 8>>, <<-1, 3>>, <<2, -1>>}

\* the flat register sequence of a sequence of pairs
RECURSIVE Flatten(_)
Flatten(pairs) ==
  IF pairs = <<>> THEN <<>> ELSE pairs[1] \o Flatten(Tail(pairs))

MatchInfos ==
  {[registers |-> Flatten(ps), last_subject |-> s] :
     ps \in UNION {[1..k -> RegisterPairs] : k \in 1..MaxCaptures},
     s \in LastSubjects}

InitCapture ==
  /\ QuietHeap
  /\ \E match_info \in MatchInfos, capture \in 0..(MaxCaptures + 1) :
       last = Pending("GenericCaptureGetter",
                      [match_info |-> match_info, capture |-> capture])

GenericCaptureGetterOp ==
  /\ last.op = "GenericCaptureGetter"
  /\ last.n = 0
  /\ last' = [last EXCEPT !.n = 1,
                          !.ret = GenericCaptureGetter(last.args.match_info,
                                                       last.args.capture)]
  /\ UNCHANGED <<isolate, recv, proto_map, log>>

SpecCapture == InitCapture /\ [][GenericCaptureGetterOp]_vars

(***************************************************************************)
(* The loop of a caller that steps over empty matches: it repeats          *)
(* SetAdvancedStringIndex on a matcher whose "lastIndex" is a writable     *)
(* data property holding a number, while the cursor is below the length of *)
(* the subject.  The first step is taken from any cursor.                  *)
(***************************************************************************)
\* a lead and a trail surrogate; a surrogate outside a pair is stepped over
\* like any other code unit
LoopCodeUnits == {55357, 56832}

LoopSubjects == UNION {[1..k -> LoopCodeUnits] : k \in 0..MaxSubjectLen}

\* -1, 4.5, the subject's positions, and the values around 2^53
LoopCursors ==
  {Smi(i) : i \in 0..MaxSubjectLen}
    \cup {Smi(-1), HeapNumber(FALSE, U64FromNat(4), TRUE),
          HeapNumber(FALSE, kMaxSafeInteger, FALSE),
          HeapNumber(FALSE, TwoTo53, FALSE)}

\* the number v is below the natural number n
NumberBelow(v, n) == v.neg \/ U64Less(v.mag, U64FromNat(n))

LoopHeaps ==
  {Heap(Receiver(map, "data", c, <<DefaultExec, DefaultMatch>>),
        "regexp_prototype_map") : map \in Maps, c \in LoopCursors}

\* every call of SetAdvancedStringIndex the loop can make, with its outcome
\* and the heap its write saw
LoopCalls ==
  {[isolate |-> iso, heap |-> h, string |-> string, unicode |-> unicode,
    outcome |-> SetAdvancedStringIndex(iso, h, <<>>, string, unicode,
                                       NoUserCode, NoUserCode, NoUserCode),
    at_write |-> ReadAndAdvance(iso, h, <<>>, string, unicode,
                                NoUserCode, NoUserCode).heap] :
     iso \in Isolates, h \in LoopHeaps, string \in LoopSubjects,
     unicode \in BOOLEAN}

InitLoop ==
  /\ isolate \in Isolates
  /\ \E h \in LoopHeaps : recv = h.recv /\ proto_map = h.proto_map
  /\ log = <<>>
  /\ \E string \in LoopSubjects, unicode \in BOOLEAN :
       last = Pending("Loop", [string |-> string, unicode |-> unicode])

LoopStep ==
  /\ last.op \in {"Loop", "SetAdvancedStringIndex"}
  /\ last.n <= MaxSubjectLen
  /\ last.n = 0 \/ NumberBelow(recv.last_index, Len(last.args.string))
  /\ \E call \in LoopCalls :
       /\ call.isolate = isolate
       /\ call.heap = CurrentHeap
       /\ call.string = last.args.string
       /\ call.unicode = last.args.unicode
       /\ Commit("SetAdvancedStringIndex",
                 [string |-> call.string, unicode |-> call.unicode,
                  getter |-> NoUserCode, coercion |-> NoUserCode,
                  setter |-> NoUserCode],
                 call.outcome, call.at_write)

SpecLoop == InitLoop /\ [][LoopStep]_vars /\ WF_vars(LoopStep)

(***************************************************************************)
(* What the claims speak of.                                               *)
(***************************************************************************)
\* the number of events of the last operation that satisfy P
Count(P(_)) == Cardinality({i \in 1..Len(log) : P(log[i])})

\* the position of the first event that satisfies P, 0 if there is none
FirstPos(P(_)) ==
  IF \E i \in 1..Len(log) : P(log[i])
  THEN CHOOSE i \in 1..Len(log) : P(log[i]) /\ \A j \in 1..(i - 1) : ~P(log[j])
  ELSE 0

IsSlotAccess(e) == e.ev \in {"last_index", "set_last_index"}
IsSlotRead(e) == e.ev = "last_index"
IsSlotWrite(e) == e.ev = "set_last_index"
IsGenericGet(e) == e.ev = "GetProperty" /\ e.key = "lastIndex"
IsGenericSet(e) == e.ev = "SetProperty" /\ e.key = "lastIndex"
IsUserCode(e) == e.ev \in {"getter", "setter", "valueOf"}
IsCoercion(e) == e.ev = "ToLength"

\* Canonical, as the data model defines it: the built-in matcher map, the
\* built-in prototype map, and a non-negative Smi in the cursor slot
Canonical(h) ==
  /\ h.recv.map = isolate.initial_map
  /\ h.proto_map = isolate.regexp_prototype_map
  /\ h.recv.last_index.t = "smi"
  /\ ~h.recv.last_index.neg

Foreign(h) == ~Canonical(h)

\* the number v is the integer n (a uint64_t)
IsInteger(v, n) ==
  v.t \in {"smi", "heapnumber"} /\ ~v.neg /\ ~v.frac /\ v.mag = n

CursorAccess == last.op \in {"GetLastIndex", "SetLastIndex"}

\* one generic get (GetLastIndex) or set (SetLastIndex) of "lastIndex", and
\* no access to the slot
OneGenericAccess ==
  /\ Count(IsSlotAccess) = 0
  /\ last.op = "GetLastIndex" => Count(IsGenericGet) = 1 /\ Count(IsGenericSet) = 0
  /\ last.op = "SetLastIndex" => Count(IsGenericSet) = 1 /\ Count(IsGenericGet) = 0

ExecFetchFailed ==
  /\ IsUndefined(last.args.exec)
  /\ last.pre.recv.exec.kind = "accessor"
  /\ last.args.getter.throws

ExecFetched ==
  IF ~IsUndefined(last.args.exec)
  THEN last.args.exec
  ELSE IF last.pre.recv.exec.kind = "data"
       THEN last.pre.recv.exec.value
       ELSE last.args.getter.ret

ExecCallable ==
  last.op = "RegExpExec" /\ ~ExecFetchFailed /\ ExecFetched.t = "function"

ExecNotCallable ==
  last.op = "RegExpExec" /\ ~ExecFetchFailed /\ ExecFetched.t # "function"

IsCall(e) == e.ev = "Call"
IsFallbackCall(e) == e.ev = "Call" /\ e.key = "regexp_exec_function"
IsExecRead(e) == e.ev = "GetProperty" /\ e.key = "exec"
IsCallableTest(e) == e.ev = "IsCallable"

\* a genuine JSRegExp instance
Genuine(h) == h.recv.map # "object_map"

(***************************************************************************)
(* C2.  In RegExpExec, when the supplied or fetched exec is callable, the  *)
(* value the call returns is returned unchanged if it is null or a         *)
(* JSReceiver, and RegExpExec fails with kInvalidRegExpExecResult for      *)
(* every other returned value (undefined included); in neither case is the *)
(* builtin exec invoked by the fallback of lines 108-116.                  *)
(***************************************************************************)
C2_CallableResultValidated ==
  ExecCallable =>
    /\ Count(IsFallbackCall) = 0
    /\ ~last.args.callee.throws =>
         IF last.args.callee.ret.t \in {"null", "object", "function"}
         THEN last.ret.error = NoError /\ last.ret.value = last.args.callee.ret
         ELSE last.ret.error = "TypeError:kInvalidRegExpExecResult"

\* a callable exec returned the number 3
C2_Witness ==
  /\ ExecCallable
  /\ ~last.args.callee.throws
  /\ last.args.callee.ret = Smi(3)
  /\ last.ret.error = "TypeError:kInvalidRegExpExecResult"

(***************************************************************************)
(* C3.  In RegExpExec, when the supplied or fetched exec is not callable:  *)
(* if the matcher is not a JSRegExp the operation fails with               *)
(* kIncompatibleMethodReceiver and nothing is called; if it is, the        *)
(* builtin exec is called exactly once on (matcher, subject) and what it   *)
(* returns (or throws) is the result.                                      *)
(***************************************************************************)
C3_NonCallableFallback ==
  ExecNotCallable =>
    IF ~Genuine(last.pre)
    THEN /\ last.ret.error = "TypeError:kIncompatibleMethodReceiver"
         /\ Count(IsCall) = 0
    ELSE /\ Count(IsCall) = 1
         /\ log[FirstPos(IsCall)] =
              CallEvent("regexp_exec_function", isolate.regexp_exec_function,
                        Matcher, <<last.args.string>>)
         /\ IF last.args.callee.throws
            THEN last.ret.error = "Exception"
            ELSE last.ret.error = NoError /\ last.ret.value = last.args.callee.ret

\* exec = 42 on a receiver that is no JSRegExp
C3_Witness ==
  /\ ExecNotCallable
  /\ ExecFetched = Smi(42)
  /\ ~Genuine(last.pre)
  /\ last.ret.error = "TypeError:kIncompatibleMethodReceiver"

(***************************************************************************)
(* C4.  RegExpExec reads the matcher's "exec" exactly once when exec is    *)
(* not supplied and never when it is; the read precedes the callable test; *)
(* a callable exec is then called exactly once, with the matcher as        *)
(* receiver and the subject as only argument; the function called is the   *)
(* value supplied or fetched, not read again, also when the getter         *)
(* redefines the property.                                                 *)
(***************************************************************************)
C4_ExecOrder ==
  last.op = "RegExpExec" =>
    /\ Count(IsExecRead) = (IF IsUndefined(last.args.exec) THEN 1 ELSE 0)
    /\ Count(IsCallableTest) <= 1
    /\ Count(IsExecRead) = 1 /\ Count(IsCallableTest) = 1 =>
         FirstPos(IsExecRead) < FirstPos(IsCallableTest)
    /\ ExecCallable =>
         /\ Count(IsCallableTest) = 1
         /\ Count(IsCall) = 1
         /\ FirstPos(IsCallableTest) < FirstPos(IsCall)
         /\ log[FirstPos(IsCall)] =
              CallEvent("exec", ExecFetched, Matcher, <<last.args.string>>)

\* the getter returned one function and left another in the property; the
\* one it returned was called
C4_Witness ==
  /\ ExecCallable
  /\ IsUndefined(last.args.exec)
  /\ last.args.getter.effect = "define_exec"
  /\ last.args.callee.effect = "none"
  /\ recv.exec = DataProp(Fn(2))
  /\ Count(IsCall) = 1
  /\ log[FirstPos(IsCall)].val = Fn(1)

\* SetAdvancedStringIndex got as far as its write (line 199)
WriteReached ==
  /\ last.op = "SetAdvancedStringIndex"
  /\ \E i \in 1..Len(log) : log[i].ev = "AdvanceStringIndex"

\* a later observation of the cursor or of canonicality
Observation == last.n >= 2 /\ last.op \in {"GetLastIndex", "IsUnmodifiedRegExp"}

\* the matcher was asked about, and the answer was false
AnsweredFalse ==
  last.op = "IsUnmodifiedRegExp" /\ last.args.object = Matcher =>
    last.ret.value = False

C6_CanonicalDirect ==
  CursorAccess /\ Canonical(last.pre) =>
    /\ last.ret.error = NoError
    /\ Count(IsUserCode) = 0
    /\ Count(IsCoercion) = 0
    /\ Count(IsGenericGet) + Count(IsGenericSet) = 0
    /\ last.op = "GetLastIndex" =>
         /\ last.ret.value = last.pre.recv.last_index
         /\ Count(IsSlotRead) = 1
         /\ recv = last.pre.recv
    /\ last.op = "SetLastIndex" =>
         /\ IsInteger(recv.last_index, last.args.value)
         /\ Count(IsSlotWrite) = 1

\* 2^53 was stored in the slot of a Canonical matcher
C6_Witness ==
  /\ last.op = "SetLastIndex"
  /\ Canonical(last.pre)
  /\ last.args.value = TwoTo53
  /\ IsInteger(recv.last_index, TwoTo53)

\* a surrogate pair starts at position i (0-based) of s
SurrogatePairAt(s, i) ==
  \E k \in 1..(Len(s) - 1) :
    /\ i = U64FromNat(k - 1)
    /\ s[k] \in 55296..56319
    /\ s[k + 1] \in 56320..57343

AdvanceReturned ==
  last.op = "AdvanceStringIndex" /\ last.n = 1

(***************************************************************************)
(* C7.  For every subject and every index i in the safe-integer range,     *)
(* AdvanceStringIndex(subject, i, false) is i + 1, and                     *)
(* AdvanceStringIndex(subject, i, true) is i + 2 exactly when i + 1 is     *)
(* below the length, the code unit at i is in 0xD800..0xDBFF and the one   *)
(* at i + 1 is in 0xDC00..0xDFFF; otherwise it is i + 1 (also for every    *)
(* i at or beyond the length).                                             *)
(***************************************************************************)
C7_AdvanceByOneOrPair ==
  AdvanceReturned =>
    LET s == last.args.string
        i == last.args.index
        r == last.ret.adv.value
    IN  /\ ~last.args.unicode => r = U64Add(i, U64FromNat(1))
        /\ last.args.unicode /\ SurrogatePairAt(s, i) => r = U64Add(i, U64FromNat(2))
        /\ last.args.unicode /\ ~SurrogatePairAt(s, i) => r = U64Add(i, U64FromNat(1))

\* a pair was stepped over, and an index beyond the subject was advanced
C7_Witness ==
  /\ AdvanceReturned
  /\ last.args.unicode
  /\ SurrogatePairAt(last.args.string, last.args.index)
  /\ last.ret.adv.value = U64Add(last.args.index, U64FromNat(2))

CaptureReturned ==
  last.op = "GenericCaptureGetter" /\ last.n = 1

\* the code units of s from start up to, not including, end (0-based)
Slice(s, start, end) == [k \in 1..(end - start) |-> s[start + k]]

(***************************************************************************)
(* C8.  GenericCaptureGetter never fails: for every table and capture      *)
(* g >= 0 it returns the empty string and ok = false when 2g + 1 exceeds   *)
(* the register count or when the start or the end register of g is -1     *)
(* (also when only one is), and otherwise the code units [start, end) of   *)
(* the last subject and ok = true.                                         *)
(***************************************************************************)
C8_ExtractTotal ==
  CaptureReturned =>
    LET m == last.args.match_info
        g == last.args.capture
        n == Len(m.registers)
    IN  IF 2 * g + 1 > n
        THEN last.ret = [string |-> <<>>, ok |-> FALSE]
        ELSE LET start == m.registers[2 * g + 1]
                 end == m.registers[2 * g + 2]
             IN  IF start = -1 \/ end = -1
                 THEN last.ret = [string |-> <<>>, ok |-> FALSE]
                 ELSE last.ret = [string |-> Slice(m.last_subject, start, end),
                                  ok |-> TRUE]

\* registers (2, 5) over "abcdefgh" gave "cde"
C8_Witness ==
  /\ CaptureReturned
  /\ last.args.capture = 0
  /\ last.args.match_info.registers = <<2, 5>>
  /\ last.ret = [string |-> <<99, 100, 101>>, ok |-> TRUE]

IsAdvance(e) == e.ev = "AdvanceStringIndex"
IsCursorWrite(e) == IsSlotWrite(e) \/ IsGenericSet(e)

\* the cursor is a data property that can be written and holds a primitive
\* that ToLength converts without user code
PlainCursor(h) ==
  /\ h.recv.lastIndex = "data"
  /\ h.recv.last_index.t \notin {"object", "function", "symbol"}

(***************************************************************************)
(* C9.  SetAdvancedStringIndex reads the cursor with a generic get of      *)
(* "lastIndex" (never from the slot, also for a Canonical matcher), then   *)
(* applies ToLength, then AdvanceStringIndex, then writes with             *)
(* SetLastIndex, in this order and each at most once, all four exactly     *)
(* once in a call that succeeds; for a matcher whose cursor is a plain     *)
(* writable value c, a call that succeeds leaves the cursor at             *)
(* AdvanceStringIndex(subject, ToLength(c), unicode).                      *)
(***************************************************************************)
C9_ReadCoerceAdvanceWrite ==
  last.op = "SetAdvancedStringIndex" =>
    /\ Count(IsSlotRead) = 0
    /\ Count(IsGenericGet) = 1 /\ FirstPos(IsGenericGet) = 1
    /\ Count(IsCoercion) <= 1 /\ Count(IsAdvance) <= 1 /\ Count(IsCursorWrite) <= 1
    /\ Count(IsCoercion) = 1 => FirstPos(IsGenericGet) < FirstPos(IsCoercion)
    /\ Count(IsAdvance) = 1 =>
         Count(IsCoercion) = 1 /\ FirstPos(IsCoercion) < FirstPos(IsAdvance)
    /\ Count(IsCursorWrite) = 1 =>
         Count(IsAdvance) = 1 /\ FirstPos(IsAdvance) < FirstPos(IsCursorWrite)
    /\ last.ret.error = NoError => Count(IsCursorWrite) = 1
    /\ last.ret.error = NoError /\ PlainCursor(last.pre) =>
         IsInteger(recv.last_index,
                   AdvanceStringIndex(last.args.string,
                                      ToLengthOfPrimitive(last.pre.recv.last_index),
                                      last.args.unicode).value)

\* cursor 4 on the ten-unit subject, not unicode: the cursor is 5 afterwards
C9_Witness ==
  /\ last.op = "SetAdvancedStringIndex"
  /\ Canonical(last.pre)
  /\ last.pre.recv.last_index = Smi(4)
  /\ Len(last.args.string) = 10
  /\ ~last.args.unicode
  /\ last.ret.error = NoError
  /\ recv.last_index = Smi(5)
  /\ Count(IsGenericGet) = 1

IsMarkerRead(e) == e.ev = "GetProperty" /\ e.key = "@@match"

\* IsRegExp: the value of the @@match property, as read
Marker ==
  IF last.pre.recv.match.kind = "data"
  THEN last.pre.recv.match.value
  ELSE last.args.getter.ret

MarkerReadFailed ==
  last.pre.recv.match.kind = "accessor" /\ last.args.getter.throws

\* ToBoolean of the values @@match takes here
Truthy(v) == v \notin {Undefined, Null, False, NaN, Smi(0)}

(***************************************************************************)
(* C10.  IsRegExp returns false for every argument that is not a           *)
(* JSReceiver, without reading a property.  For a receiver it reads        *)
(* @@match exactly once; if the value read is not undefined the result is  *)
(* its boolean value, whether or not the receiver is a JSRegExp; only if   *)
(* it is undefined the result is whether the receiver is a JSRegExp.       *)
(***************************************************************************)
C10_IsRegExpByMarker ==
  last.op = "IsRegExp" =>
    IF last.args.object.t \notin {"object", "function"}
    THEN last.ret.error = NoError /\ last.ret.value = False /\ log = <<>>
    ELSE /\ Count(IsMarkerRead) = 1
         /\ \A i \in 1..Len(log) : log[i].ev = "GetProperty" => IsMarkerRead(log[i])
         /\ MarkerReadFailed => last.ret.error = "Exception"
         /\ ~MarkerReadFailed =>
              /\ last.ret.error = NoError
              /\ last.ret.value =
                   IF Marker # Undefined
                   THEN Bool(Truthy(Marker))
                   ELSE Bool(Genuine(last.pre))

\* a JSRegExp whose @@match is false is no regexp
C10_Witness ==
  /\ last.op = "IsRegExp"
  /\ last.args.object = Matcher
  /\ Genuine(last.pre)
  /\ last.pre.recv.match = DataProp(False)
  /\ last.ret.value = False

\* the four conditions of a Canonical matcher, for the argument obj
FourChecks(h, obj) == obj.t \in {"object", "function"} /\ Canonical(h)

\* IsUnmodifiedRegExp left the heap alone and made no call
LeftNoTrace ==
  /\ recv = last.pre.recv
  /\ proto_map = last.pre.proto_map
  /\ log = <<>>
  /\ last.ret.error = NoError

\* asked twice in a row about the same object, the answer is the same
SameAnswerTwice ==
  last.prev.op = "IsUnmodifiedRegExp" /\ last.prev.args.object = last.args.object =>
    last.ret.value = last.prev.value

(***************************************************************************)
(* C11, as claimed.  IsUnmodifiedRegExp returns true exactly when its      *)
(* argument is a JSReceiver with the initial JSRegExp map, the initial     *)
(* RegExp.prototype map and a non-negative Smi in the cursor slot; it      *)
(* changes no state and runs no user code, and two calls in a row give the *)
(* same answer.                                                            *)
(***************************************************************************)
C11_TrueIffFourChecks ==
  last.op = "IsUnmodifiedRegExp" =>
    /\ last.ret.value = Bool(FourChecks(last.pre, last.args.object))
    /\ LeftNoTrace
    /\ SameAnswerTwice

(***************************************************************************)
(* C11, amended.  IsUnmodifiedRegExp returns true exactly when             *)
(* force_slow_path is off and its argument is a JSReceiver with the        *)
(* initial JSRegExp map, the initial RegExp.prototype map and a            *)
(* non-negative Smi in the cursor slot (with force_slow_path on it returns *)
(* false whatever the argument); it changes no state and runs no user      *)
(* code, and two calls in a row give the same answer.                      *)
(***************************************************************************)
C11_TrueIffFastAndFourChecks ==
  last.op = "IsUnmodifiedRegExp" =>
    /\ last.ret.value =
         Bool(~isolate.force_slow_path /\ FourChecks(last.pre, last.args.object))
    /\ LeftNoTrace
    /\ SameAnswerTwice

\* a Canonical matcher was found unmodified twice in a row
C11_Witness ==
  /\ last.op = "IsUnmodifiedRegExp"
  /\ last.prev.op = "IsUnmodifiedRegExp"
  /\ last.args.object = Matcher
  /\ last.prev.args.object = Matcher
  /\ last.prev.value = True
  /\ last.ret.value = True

\* the step that event e records failed
StepFailed(e) ==
  CASE e.ev = "getter" -> last.args.getter.throws
    [] e.ev = "setter" -> last.args.setter.throws
    [] e.ev = "valueOf" ->
         \/ last.args.coercion.throws
         \/ last.args.coercion.ret.t \in {"symbol", "object", "function"}
    [] e.ev = "Call" -> last.args.callee.throws
    [] e.ev = "ToLength" -> e.val.t = "symbol"
    [] e.ev = "SetProperty" ->
         last.at_write.recv.lastIndex \in {"readonly", "absent"}
    [] OTHER -> FALSE

\* the error of the failed step that event e records
StepError(e) ==
  CASE e.ev = "ToLength" -> "TypeError:kSymbolToNumber"
    [] e.ev = "SetProperty" ->
         IF last.at_write.recv.lastIndex = "readonly"
         THEN "TypeError:kStrictReadOnlyProperty"
         ELSE "TypeError:kObjectNotExtensible"
    [] e.ev = "valueOf" ->
         IF last.args.coercion.throws
         THEN "Exception"
         ELSE "TypeError:kCannotConvertToPrimitive"
    [] OTHER -> "Exception"

Fallible ==
  last.op \in {"GetLastIndex", "SetLastIndex", "RegExpExec", "IsRegExp",
               "SetAdvancedStringIndex"}

(***************************************************************************)
(* C12.  No operation swallows an error: whenever a property get or set, a *)
(* call or a ToLength made by GetLastIndex, SetLastIndex, RegExpExec,      *)
(* IsRegExp or SetAdvancedStringIndex fails, that step is the last one the *)
(* operation performs and its error is the error the operation returns     *)
(* (no call after a failing "exec" getter, no cursor write after a failing *)
(* read or coercion).                                                      *)
(***************************************************************************)
C12_ErrorsPropagate ==
  Fallible =>
    \A i \in 1..Len(log) :
      StepFailed(log[i]) => i = Len(log) /\ last.ret.error = StepError(log[i])

\* valueOf threw under ToLength: no AdvanceStringIndex, no write, and the
\* cursor is as it was
C12_Witness ==
  /\ last.op = "SetAdvancedStringIndex"
  /\ log[Len(log)].ev = "valueOf"
  /\ last.args.coercion.throws
  /\ last.ret.error = "Exception"
  /\ Count(IsCursorWrite) = 0
  /\ recv.last_index = last.pre.recv.last_index

\* SetLastIndex on a matcher that takes the generic path
GenericSet ==
  last.op = "SetLastIndex" /\ last.pre.recv.map # isolate.initial_map

\* the write of "lastIndex" is rejected: the property is read-only, or there
\* is none and the object is not extensible, or its setter throws
WriteRejected ==
  \/ last.pre.recv.lastIndex \in {"readonly", "absent"}
  \/ last.pre.recv.lastIndex = "accessor" /\ last.args.setter.throws

(***************************************************************************)
(* C13.  On the generic path SetLastIndex writes "lastIndex" in strict     *)
(* mode: a rejected write (read-only property, object not extensible,      *)
(* throwing setter) makes SetLastIndex return an error and leaves the      *)
(* stored cursor as it was; SetLastIndex succeeds only if the write was    *)
(* made (the value stored, or the setter run to its end).                  *)
(***************************************************************************)
C13_StrictWrite ==
  GenericSet =>
    /\ Count(IsGenericSet) = 1
    /\ WriteRejected =>
         /\ last.ret.error # NoError
         /\ recv.last_index = last.pre.recv.last_index
    /\ last.ret.error = NoError =>
         /\ ~WriteRejected
         /\ last.pre.recv.lastIndex = "data" =>
              IsInteger(recv.last_index, last.args.value)
         /\ last.pre.recv.lastIndex = "accessor" => log[Len(log)].ev = "setter"

\* a JSRegExp with a read-only lastIndex: the write fails and the cursor
\* stays
C13_Witness ==
  /\ GenericSet
  /\ last.pre.recv.map = "other_regexp_map"
  /\ last.pre.recv.lastIndex = "readonly"
  /\ last.ret.error = "TypeError:kStrictReadOnlyProperty"
  /\ recv.last_index = last.pre.recv.last_index

\* with force_slow_path on, IsUnmodifiedRegExp answers false
FlagDefeatsClassifier ==
  isolate.force_slow_path /\ last.op = "IsUnmodifiedRegExp" =>
    last.ret.value = False

Stepped == last.op = "SetAdvancedStringIndex" /\ last.ret.error = NoError

\* the larger of two uint64_t
U64Max(x, y) == IF U64Less(x, y) THEN y ELSE x

\* AdvanceStringIndex(string, i, unicode) = r with i < r <= i + 2 and
\* r <= max(length, i + 1)
AdvanceBounds ==
  Stepped =>
    LET i == last.ret.index
        r == last.ret.adv.value
        length == U64FromNat(Len(last.args.string))
    IN  /\ U64Less(i, r)
        /\ U64LessEq(r, U64Add(i, U64FromNat(2)))
        /\ U64LessEq(r, U64Max(length, U64Add(i, U64FromNat(1))))

\* the cursor after the step is above the cursor before it
CursorGrew ==
  \/ last.pre.recv.last_index.neg
  \/ U64Less(last.pre.recv.last_index.mag, recv.last_index.mag)

\* the cursor is at or beyond the length of the subject
AtOrBeyondLength == ~NumberBelow(recv.last_index, Len(last.args.string))

\* the bounds of AdvanceStringIndex hold and the step left the cursor above
\* what it was
StepAlwaysGrows == AdvanceBounds /\ (Stepped => CursorGrew)

\* the same, with the growth only from a cursor below 2^53; from 2^53 or
\* above the cursor becomes 2^53
StepGrowsBelow2To53 ==
  /\ AdvanceBounds
  /\ Stepped =>
       IF last.pre.recv.last_index.neg
            \/ U64Less(last.pre.recv.last_index.mag, TwoTo53)
       THEN CursorGrew
       ELSE IsInteger(recv.last_index, TwoTo53)

(***************************************************************************)
(* C15, as claimed.  AdvanceStringIndex(subject, i, u) is above i, at most *)
(* i + 2 and at most max(length, i + 1); every SetAdvancedStringIndex that *)
(* succeeds on a matcher whose cursor is a plain writable number leaves    *)
(* the cursor above what it was; and the loop that repeats it reaches a    *)
(* cursor at or beyond the length of the subject.                          *)
(***************************************************************************)
C15_ForwardProgress ==
  /\ [](StepAlwaysGrows = TRUE)
  /\ <>(AtOrBeyondLength = TRUE)

(***************************************************************************)
(* C15, amended.  AdvanceStringIndex(subject, i, u) is above i, at most    *)
(* i + 2 and at most max(length, i + 1); every SetAdvancedStringIndex that *)
(* succeeds on a matcher whose cursor is a plain writable number below     *)
(* 2^53 leaves the cursor above what it was, while a cursor of 2^53 or     *)
(* more is clamped by ToLength to 2^53 - 1 and becomes 2^53, which is no   *)
(* increase; and the loop that repeats it reaches a cursor at or beyond    *)
(* the length of the subject.                                              *)
(***************************************************************************)
C15_ForwardProgressBelow2To53 ==
  /\ [](StepGrowsBelow2To53 = TRUE)
  /\ <>(AtOrBeyondLength = TRUE)

\* the loop took two steps, the second over a surrogate pair, and ended at
\* the length of the subject
C15_Witness ==
  /\ Stepped
  /\ last.n >= 2
  /\ last.args.unicode
  /\ last.ret.adv.value = U64Add(last.ret.index, U64FromNat(2))
  /\ IsInteger(recv.last_index, U64FromNat(Len(last.args.string)))

\* SetAdvancedStringIndex called AdvanceStringIndex
AdvanceReached ==
  last.op = "SetAdvancedStringIndex" /\ Count(IsAdvance) = 1

(***************************************************************************)
(* C16.  The DCHECKs of AdvanceStringIndex hold whenever it is reached     *)
(* through SetAdvancedStringIndex: the index is the result of ToLength and *)
(* lies in 0 .. 2^53 - 1 whatever "lastIndex" held (negative, fractional,  *)
(* huge, not a number); index + 1 and index + 2 do not wrap around in      *)
(* uint64_t; and String::Get is called only at positions below the length  *)
(* of the subject.                                                         *)
(***************************************************************************)
C16_AssertionsHold ==
  AdvanceReached =>
    /\ U64LessEq(last.ret.index, kMaxSafeInteger)
    /\ last.ret.adv.dcheck_ok
    /\ U64Less(last.ret.index, last.ret.adv.value)
    /\ U64Less(last.ret.index, U64Add(last.ret.index, U64FromNat(2)))
    /\ \A k \in 1..Len(last.ret.adv.reads) :
         U64Less(last.ret.adv.reads[k], U64FromNat(Len(last.args.string)))

\* the getter returned Infinity: the index was 2^53 - 1 and the result 2^53
C16_Witness ==
  /\ AdvanceReached
  /\ last.pre.recv.lastIndex = "accessor"
  /\ last.args.getter.ret = Infinity
  /\ last.ret.index = kMaxSafeInteger
  /\ last.ret.adv.value = TwoTo53
  /\ last.ret.adv.dcheck_ok

\* SetLastIndex wrote the slot
SlotWritten(events) == Len(events) = 1 /\ events[1].ev = "set_last_index"

\* the operation that follows a SetLastIndex that wrote the slot
AfterSlotWrite ==
  last.n = 2 /\ last.prev.op = "SetLastIndex" /\ SlotWritten(last.prev.log)

(***************************************************************************)
(* C17.  Whenever SetLastIndex(v) writes the slot, for v in 0 .. 2^53, a   *)
(* GetLastIndex that follows at once returns v, also when v is no Smi; in  *)
(* that case IsUnmodifiedRegExp is false after the write; and the write    *)
(* leaves the matcher's map and the map of its prototype as they were.     *)
(***************************************************************************)
C17_SlotRoundTrip ==
  /\ last.op = "SetLastIndex" /\ SlotWritten(log) =>
       /\ recv.map = last.pre.recv.map
       /\ proto_map = last.pre.proto_map
       /\ IsInteger(recv.last_index, last.args.value)
  /\ AfterSlotWrite =>
       /\ last.pre.recv.map = last.prev.pre.recv.map
       /\ last.pre.proto_map = last.prev.pre.proto_map
       /\ last.op = "GetLastIndex" =>
            /\ last.ret.error = NoError
            /\ IsInteger(last.ret.value, last.prev.args.value)
       /\ /\ last.op = "IsUnmodifiedRegExp"
          /\ last.args.object = Matcher
          /\ U64Less(kSmiMaxValue, last.prev.args.value)
          => last.ret.value = False

\* 2^53 was written to the slot and read back
C17_Witness ==
  /\ AfterSlotWrite
  /\ last.prev.args.value = TwoTo53
  /\ last.op = "GetLastIndex"
  /\ last.ret.value = HeapNumber(FALSE, TwoTo53, FALSE)

====
